---- MODULE Spec2Model ----
(***************************************************************************)
(* A model of entity-table-realtime (src/src/lib.rs): per-kind component   *)
(* tables of scheduled records, the scheduling step tick_entity generated  *)
(* by declare_realtime_entity_module!, event bundles and their apply, and  *)
(* the frame driver process_entity_frame.                                  *)
(*                                                                         *)
(* Durations are natural numbers (std::time::Duration is an unsigned       *)
(* integer count of nanoseconds; subtraction below zero panics).           *)
(* A component value is the cyclic list of the delays its tick returns:    *)
(* tick returns the head of the list and rotates it, so <<0>> is the       *)
(* Dummy of examples/basic.rs, <<p>> a component of constant period p and  *)
(* <<0, 1>> a component whose next delay depends on its own state.         *)
(* apply_event is user code; here it appends the event to the context and  *)
(* does not touch the component tables.                                    *)
(***************************************************************************)
EXTENDS Integers, Sequences, FiniteSets, TLC

VARIABLES
    comps,            \* RealtimeComponents: kind -> table (entity -> scheduled record)
    context,          \* the caller's context: the events apply_event received
    pc,               \* position of the process_entity_frame call
    entity,           \* its entity argument
    frame_duration,   \* its frame_duration argument
    frame_remaining,  \* its local frame_remaining
    history,          \* the scheduling steps of the current frame call, in order
    nsteps,           \* how many steps the current frame call made (saturating)
    start,            \* comps when the current frame call began
    last_insert,      \* the preceding call when it was insert: kind, entity, old delay
    last_tick,        \* the result of the preceding call when it was tick_entity
    entity_data,      \* a RealtimeEntityData the caller holds, with where it came from
    roundtrip,        \* the preceding call when it put a snapshot into an empty aggregate
    inserted,         \* the <<kind, entity>> whose most recent table operation inserted
    last_call         \* the preceding call and what it returned, when the caller kept it

vars == <<comps, context, pc, entity, frame_duration, frame_remaining, history,
          nsteps, start, last_insert, last_tick, entity_data, roundtrip,
          inserted, last_call>>

(***************************************************************************)
(* Bounds                                                                  *)
(***************************************************************************)
MaxDelay == 2       \* largest delay given to insert_with_schedule
MaxFrame == 3       \* largest frame_duration / frame_remaining a caller passes
MaxSteps == 8       \* steps of one frame call that history records
MaxContext == 12    \* events the context keeps

\* The declared kinds, in declaration order (the macro's $component_name list).
Kinds == <<"a", "b", "c">>
KindSet == {Kinds[i] : i \in 1..Len(Kinds)}

Entities == {"e1"}

\* Each kind has its own component type ($component_type); the values of each
\* type that callers insert.
ComponentsOf ==
    [a |-> {<<1>>, <<2>>}, b |-> {<<2>>, <<0, 1>>}, c |-> {<<0>>, <<1>>}]
Delays == 0..MaxDelay
FrameDurations == 0..MaxFrame

(***************************************************************************)
(* Option<T>                                                               *)
(***************************************************************************)
None == <<>>
Some(x) == <<x>>
IsSome(o) == o # <<>>
Unwrap(o) == o[1]

(***************************************************************************)
(* RealtimeComponent::tick of the modelled component type                  *)
(***************************************************************************)
Tick(component) ==
    [event |-> component,
     until_next_tick |-> Head(component),
     component |-> Tail(component) \o <<Head(component)>>]

(***************************************************************************)
(* RealtimeComponentTable<T>: a sparse map entity -> ScheduledRealtime-    *)
(* Component, modelled as a function whose domain is the entities present. *)
(* Each operation yields the table after it and the value it returns.      *)
(***************************************************************************)
EmptyTable == [e \in {} |-> None]

ScheduledRealtimeComponent(component, until_next_tick) ==
    [component |-> component, until_next_tick |-> until_next_tick]

contains(table, e) == e \in DOMAIN table

get_with_schedule(table, e) ==
    IF e \in DOMAIN table THEN Some(table[e]) ELSE None

get(table, e) ==
    IF e \in DOMAIN table THEN Some(table[e].component) ELSE None

\* Mutant: an existing record is kept; the new one is stored only when absent.
insert_with_schedule_if_absent(table, e, data) ==
    [table |-> [x \in (DOMAIN table) \cup {e} |->
                   IF x \in DOMAIN table THEN table[x] ELSE data],
     ret |-> get_with_schedule(table, e)]

insert_with_schedule(table, e, data) ==
    [table |-> [x \in (DOMAIN table) \cup {e} |-> IF x = e THEN data ELSE table[x]],
     ret |-> get_with_schedule(table, e)]

\* Mutant: insert over an existing record keeps that record's delay.
insert_keeps_schedule(table, e, data) ==
    LET old == get_with_schedule(table, e)
        r == insert_with_schedule(table, e,
                 ScheduledRealtimeComponent(data,
                     IF IsSome(old) THEN Unwrap(old).until_next_tick ELSE 0))
    IN [table |-> r.table,
        ret |-> IF IsSome(r.ret) THEN Some(Unwrap(r.ret).component) ELSE None]

insert(table, e, data) ==
    LET r == insert_with_schedule(table, e, ScheduledRealtimeComponent(data, 0))
    IN [table |-> r.table,
        ret |-> IF IsSome(r.ret) THEN Some(Unwrap(r.ret).component) ELSE None]

\* Mutant: the record is returned but stays in the table.
remove_with_schedule_keeps_record(table, e) ==
    [table |-> table, ret |-> get_with_schedule(table, e)]

remove_with_schedule(table, e) ==
    [table |-> [x \in (DOMAIN table) \ {e} |-> table[x]],
     ret |-> get_with_schedule(table, e)]

remove(table, e) ==
    LET r == remove_with_schedule(table, e)
    IN [table |-> r.table,
        ret |-> IF IsSome(r.ret) THEN Some(Unwrap(r.ret).component) ELSE None]

clear(table) == EmptyTable

is_empty(table) == DOMAIN table = {}

len(table) == Cardinality(DOMAIN table)

(***************************************************************************)
(* RealtimeComponents (the aggregate) and RealtimeEntityEvents             *)
(***************************************************************************)
DefaultComponents == [k \in KindSet |-> EmptyTable]

NoEvents == [k \in KindSet |-> None]

\* The kinds of which entity e has a record, and a record's stored delay.
PresentKinds(c, e) == {k \in KindSet : contains(c[k], e)}

DelayOf(c, k, e) == c[k][e].until_next_tick

Min(x, y) == IF x <= y THEN x ELSE y

\* RealtimeComponents::clear and remove_entity, lines 245-253.
clear_components(c) == [k \in KindSet |-> clear(c[k])]

remove_entity(c, e) == [k \in KindSet |-> remove(c[k], e).table]

\* RealtimeEntityData: kind -> Option<component>; lines 257-288.
clone_entity_data(c, e) == [k \in KindSet |-> get(c[k], e)]

remove_entity_data(c, e) ==
    [components |-> [k \in KindSet |-> remove(c[k], e).table],
     data |-> [k \in KindSet |-> remove(c[k], e).ret]]

\* Mutant: the snapshot's components are inserted with a delay of 1.
insert_entity_data_delayed(c, e, data) ==
    [k \in KindSet |->
        IF IsSome(data[k])
        THEN insert_with_schedule(c[k], e,
                 ScheduledRealtimeComponent(Unwrap(data[k]), 1)).table
        ELSE c[k]]

insert_entity_data(c, e, data) ==
    [k \in KindSet |->
        IF IsSome(data[k]) THEN insert(c[k], e, Unwrap(data[k])).table ELSE c[k]]

\* Mutant: the kinds absent from the snapshot are left in place.
update_entity_data_keeps_absent(c, e, data) ==
    [k \in KindSet |->
        IF IsSome(data[k]) THEN insert(c[k], e, Unwrap(data[k])).table ELSE c[k]]

update_entity_data(c, e, data) ==
    [k \in KindSet |->
        IF IsSome(data[k])
        THEN insert(c[k], e, Unwrap(data[k])).table
        ELSE remove(c[k], e).table]

\* One entry of the order in which user code (tick, apply_event) is called.
Call(name, kind, event) == [call |-> name, kind |-> kind, event |-> event]

(***************************************************************************)
(* tick_entity, lines 293-323.                                             *)
(***************************************************************************)
\* Mutant: the delay is assigned where the minimum should be taken.
min_with_assigned(until_next_tick, scheduled) ==
    IF IsSome(scheduled)
    THEN Unwrap(scheduled).until_next_tick
    ELSE until_next_tick

\* Lines 305-307, one kind: until_next_tick = until_next_tick.min(...).
min_with(until_next_tick, scheduled) ==
    IF IsSome(scheduled)
    THEN Min(until_next_tick, Unwrap(scheduled).until_next_tick)
    ELSE until_next_tick

\* Mutant: only the first declared kind bounds the step.
min_over_first_kind(c, e, i, until_next_tick) ==
    min_with(until_next_tick, get_with_schedule(c[Kinds[1]], e))

RECURSIVE min_over_kinds(_, _, _, _)
min_over_kinds(c, e, i, until_next_tick) ==
    IF i > Len(Kinds) THEN until_next_tick
    ELSE min_over_kinds(c, e, i + 1,
             min_with(until_next_tick, get_with_schedule(c[Kinds[i]], e)))

\* Mutant: the minimum is not clamped to frame_remaining when a kind is present.
min_unclamped(c, e, remaining) ==
    IF PresentKinds(c, e) = {} THEN remaining
    ELSE min_over_kinds(c, e, 1, remaining + MaxDelay)

\* Mutant: with no kind present the step returns an elapsed time of zero.
min_until_next_tick_empty_is_zero(c, e, remaining) ==
    IF PresentKinds(c, e) = {} THEN 0
    ELSE min_over_kinds(c, e, 1, remaining)

\* Lines 304-307: the elapsed time the step returns.
min_until_next_tick(c, e, remaining) ==
    min_over_kinds(c, e, 1, remaining)

\* Mutant: a kind that does not fire keeps its stored delay.
tick_component_no_decrement(scheduled, until_next_tick) ==
    IF IsSome(scheduled) /\ until_next_tick = Unwrap(scheduled).until_next_tick
    THEN LET t == Tick(Unwrap(scheduled).component) IN
         [scheduled |-> Some(ScheduledRealtimeComponent(t.component,
                                                        t.until_next_tick)),
          event |-> Some(t.event), panic |-> FALSE]
    ELSE [scheduled |-> scheduled, event |-> None, panic |-> FALSE]

\* Mutant: a kind that fires keeps its stored delay (line 311 left out).
tick_component_keeps_delay(scheduled, until_next_tick) ==
    IF IsSome(scheduled)
    THEN LET sc == Unwrap(scheduled) IN
         IF until_next_tick = sc.until_next_tick
         THEN LET t == Tick(sc.component) IN
              [scheduled |-> Some(ScheduledRealtimeComponent(t.component,
                                                             sc.until_next_tick)),
               event |-> Some(t.event), panic |-> FALSE]
         ELSE IF sc.until_next_tick < until_next_tick
              THEN [scheduled |-> scheduled, event |-> None, panic |-> TRUE]
              ELSE [scheduled |-> Some(ScheduledRealtimeComponent(sc.component,
                                      sc.until_next_tick - until_next_tick)),
                    event |-> None, panic |-> FALSE]
    ELSE [scheduled |-> None, event |-> None, panic |-> FALSE]

\* Lines 308-319, one kind: the record after the step, the bundle slot, and
\* whether the Duration subtraction of line 314 underflowed (a panic).
tick_component(scheduled, until_next_tick) ==
    IF IsSome(scheduled)
    THEN LET sc == Unwrap(scheduled) IN
         IF until_next_tick = sc.until_next_tick
         THEN LET t == Tick(sc.component) IN
              [scheduled |-> Some(ScheduledRealtimeComponent(t.component,
                                                             t.until_next_tick)),
               event |-> Some(t.event), panic |-> FALSE]
         ELSE IF sc.until_next_tick < until_next_tick
              THEN [scheduled |-> scheduled, event |-> None, panic |-> TRUE]
              ELSE [scheduled |-> Some(ScheduledRealtimeComponent(sc.component,
                                      sc.until_next_tick - until_next_tick)),
                    event |-> None, panic |-> FALSE]
    ELSE [scheduled |-> None, event |-> None, panic |-> FALSE]

\* Lines 308-319 over the kinds in declaration order: the statements of the
\* kinds touch different tables, so each kind's outcome depends only on its own
\* record; a panic ends the step, leaving the later kinds untouched.
KindIndex(k) == CHOOSE i \in 1..Len(Kinds) : Kinds[i] = k

\* Mutant: only the first kind that is due fires; the step ends there.
tick_first_component(c, e, until_next_tick) ==
    LET out == [k \in KindSet |->
                    tick_component(get_with_schedule(c[k], e), until_next_tick)]
        reached(k) == \A j \in KindSet :
                          KindIndex(j) < KindIndex(k) => ~IsSome(out[j].event)
        fired == SelectSeq(Kinds, LAMBDA k : reached(k) /\ IsSome(out[k].event))
    IN [components |->
            [k \in KindSet |->
                IF reached(k) /\ IsSome(out[k].scheduled)
                THEN [c[k] EXCEPT ![e] = Unwrap(out[k].scheduled)]
                ELSE c[k]],
        events |-> [k \in KindSet |-> IF reached(k) THEN out[k].event ELSE None],
        calls |-> [i \in 1..Len(fired) |->
                      Call("tick", fired[i], Unwrap(out[fired[i]].event))],
        panic |-> FALSE]

tick_components(c, e, until_next_tick) ==
    LET out == [k \in KindSet |->
                    tick_component(get_with_schedule(c[k], e), until_next_tick)]
        reached(k) == \A j \in KindSet : KindIndex(j) < KindIndex(k) => ~out[j].panic
        fired == SelectSeq(Kinds, LAMBDA k : reached(k) /\ IsSome(out[k].event))
    IN [components |->
            [k \in KindSet |->
                IF reached(k) /\ IsSome(out[k].scheduled)
                THEN [c[k] EXCEPT ![e] = Unwrap(out[k].scheduled)]
                ELSE c[k]],
        events |-> [k \in KindSet |-> IF reached(k) THEN out[k].event ELSE None],
        calls |-> [i \in 1..Len(fired) |->
                      Call("tick", fired[i], Unwrap(out[fired[i]].event))],
        panic |-> \E k \in KindSet : out[k].panic]

\* Mutant: a step bounded by frame_remaining fires nothing, the kinds due at
\* that very instant included.
tick_entity_frame_bound_idle(c, e, remaining) ==
    LET until_next_tick == min_until_next_tick(c, e, remaining)
        r == tick_components(c, e, until_next_tick)
    IN IF until_next_tick = remaining /\ PresentKinds(c, e) # {}
       THEN [components |->
                 [k \in KindSet |->
                     IF contains(c[k], e)
                     THEN [c[k] EXCEPT
                              ![e].until_next_tick = @ - until_next_tick]
                     ELSE c[k]],
             events |-> NoEvents, until_next_tick |-> until_next_tick,
             calls |-> <<>>, panic |-> FALSE]
       ELSE [components |-> r.components, events |-> r.events,
             until_next_tick |-> until_next_tick, calls |-> r.calls,
             panic |-> r.panic]

\* Mutant: the step counts down every record of the tables, the other
\* entities' records included.
tick_entity_whole_tables(c, e, remaining) ==
    LET until_next_tick == min_until_next_tick(c, e, remaining)
        r == tick_components(c, e, until_next_tick)
    IN [components |->
            [k \in KindSet |->
                [x \in DOMAIN r.components[k] |->
                    IF x = e THEN r.components[k][x]
                    ELSE [r.components[k][x] EXCEPT
                             !.until_next_tick =
                                 IF @ >= until_next_tick
                                 THEN @ - until_next_tick ELSE 0]]],
        events |-> r.events,
        until_next_tick |-> until_next_tick, calls |-> r.calls,
        panic |-> r.panic]

tick_entity(c, e, remaining) ==
    LET until_next_tick == min_until_next_tick(c, e, remaining)
        r == tick_components(c, e, until_next_tick)
    IN [components |-> r.components, events |-> r.events,
        until_next_tick |-> until_next_tick, calls |-> r.calls,
        panic |-> r.panic]

(***************************************************************************)
(* RealtimeEntityEvents::apply, lines 220-232, with apply_event appending  *)
(* the event to the context.                                               *)
(***************************************************************************)
apply_event(kind, event, e, ctx) ==
    IF Len(ctx) < MaxContext
    THEN Append(ctx, [kind |-> kind, entity |-> e, event |-> event])
    ELSE ctx

RECURSIVE apply_kinds(_, _, _, _)
apply_kinds(acc, events, e, order) ==
    IF order = <<>> THEN acc
    ELSE LET k == Head(order) IN
         apply_kinds(
             IF IsSome(events[k])
             THEN [context |-> apply_event(k, Unwrap(events[k]), e, acc.context),
                   calls |-> Append(acc.calls,
                                    Call("apply_event", k, Unwrap(events[k])))]
             ELSE acc,
             events, e, Tail(order))

Reverse(seq) == [i \in 1..Len(seq) |-> seq[Len(seq) + 1 - i]]

\* Mutant: the events are dispatched in the reverse of the declaration order.
apply_reversed(events, e, ctx) ==
    apply_kinds([context |-> ctx, calls |-> <<>>], events, e, Reverse(Kinds))

\* Mutant: only the first event of the bundle is dispatched.
apply_first_event_only(events, e, ctx) ==
    LET held == SelectSeq(Kinds, LAMBDA k : IsSome(events[k])) IN
    apply_kinds([context |-> ctx, calls |-> <<>>], events, e,
                IF held = <<>> THEN <<>> ELSE <<Head(held)>>)

apply(events, e, ctx) ==
    apply_kinds([context |-> ctx, calls |-> <<>>], events, e, Kinds)

(***************************************************************************)
(* process_entity_frame, lines 155-168, as a function of the aggregate: the *)
(* aggregate after the call, the bundles that held an event with the       *)
(* simulated instant of each, and whether the call returned within         *)
(* `fuel` iterations of the loop.                                          *)
(***************************************************************************)
RECURSIVE frame_loop(_, _, _)
frame_loop(s, e, fuel) ==
    IF ~(s.frame_remaining > 0) THEN [s EXCEPT !.returned = TRUE]
    ELSE IF fuel = 0 THEN s
    ELSE LET r == tick_entity(s.components, e, s.frame_remaining) IN
         IF r.panic \/ r.until_next_tick > s.frame_remaining THEN s
         ELSE frame_loop(
                  [components |-> r.components,
                   frame_remaining |-> s.frame_remaining - r.until_next_tick,
                   now |-> s.now + r.until_next_tick,
                   fired |-> IF r.events = NoEvents THEN s.fired
                             ELSE Append(s.fired,
                                      [at |-> s.now + r.until_next_tick,
                                       events |-> r.events]),
                   returned |-> FALSE],
                  e, fuel - 1)

process_entity_frame(c, e, duration, now) ==
    frame_loop([components |-> c, frame_remaining |-> duration, now |-> now,
                fired |-> <<>>, returned |-> FALSE], e, MaxSteps)

(***************************************************************************)
(* What one tick_entity call did: its arguments, the aggregate before and  *)
(* after, what it returned, the user code it (and the apply that followed) *)
(* called, and the insert that immediately preceded it, if any.            *)
(***************************************************************************)
StepRecord(e, remaining, before, r, calls, preceding) ==
    [entity |-> e, frame_remaining |-> remaining, before |-> before,
     after |-> r.components, elapsed |-> r.until_next_tick, events |-> r.events,
     calls |-> calls, after_insert |-> preceding]

Init ==
    /\ comps = DefaultComponents
    /\ context = <<>>
    /\ pc = "idle"
    /\ entity = None
    /\ frame_duration = 0
    /\ frame_remaining = 0
    /\ history = <<>>
    /\ nsteps = 0
    /\ start = DefaultComponents
    /\ last_insert = None
    /\ last_tick = None
    /\ entity_data = None
    /\ roundtrip = None
    /\ inserted = {}
    /\ last_call = None

frame_vars == <<context, entity, frame_duration, frame_remaining, history,
                nsteps, start>>

(***************************************************************************)
(* Calls on one kind's table, made between frames.                         *)
(***************************************************************************)
\* A call of a table method: the table it was made on, its argument and the
\* value it returned, as a component (insert, remove, get) or as a scheduled
\* record (the _with_schedule methods).
TableCall(op, k, e, data, before, r) ==
    [op |-> op, kind |-> k, entity |-> e, before |-> before,
     data |-> data, ret |-> r.ret, scheduled_data |-> None, scheduled_ret |-> None]

ScheduledTableCall(op, k, e, data, before, r) ==
    [op |-> op, kind |-> k, entity |-> e, before |-> before,
     data |-> None, ret |-> None, scheduled_data |-> data, scheduled_ret |-> r.ret]

Insert(k, e, v) ==
    /\ pc = "idle"
    /\ \E r \in {insert(comps[k], e, v)} :
          /\ comps' = [comps EXCEPT ![k] = r.table]
          /\ last_call' = Some(TableCall("insert", k, e, Some(v), comps[k], r))
    /\ inserted' = inserted \cup {<<k, e>>}
    /\ last_insert' = Some([kind |-> k, entity |-> e,
                             prior_delay |->
                                 IF contains(comps[k], e)
                                 THEN Some(DelayOf(comps, k, e)) ELSE None])
    /\ last_tick' = None
    /\ roundtrip' = None
    /\ UNCHANGED <<pc, frame_vars, entity_data>>

InsertWithSchedule(k, e, v, d) ==
    /\ pc = "idle"
    /\ \E data \in {ScheduledRealtimeComponent(v, d)} :
       \E r \in {insert_with_schedule(comps[k], e, data)} :
          /\ comps' = [comps EXCEPT ![k] = r.table]
          /\ last_call' = Some(ScheduledTableCall("insert_with_schedule", k, e,
                                                  Some(data), comps[k], r))
    /\ inserted' = inserted \cup {<<k, e>>}
    /\ last_insert' = None
    /\ last_tick' = None
    /\ roundtrip' = None
    /\ UNCHANGED <<pc, frame_vars, entity_data>>

Remove(k, e) ==
    /\ pc = "idle"
    /\ \E r \in {remove(comps[k], e)} :
          /\ comps' = [comps EXCEPT ![k] = r.table]
          /\ last_call' = Some(TableCall("remove", k, e, None, comps[k], r))
    /\ inserted' = inserted \ {<<k, e>>}
    /\ last_insert' = None
    /\ last_tick' = None
    /\ roundtrip' = None
    /\ UNCHANGED <<pc, frame_vars, entity_data>>

RemoveWithSchedule(k, e) ==
    /\ pc = "idle"
    /\ \E r \in {remove_with_schedule(comps[k], e)} :
          /\ comps' = [comps EXCEPT ![k] = r.table]
          /\ last_call' = Some(ScheduledTableCall("remove_with_schedule", k, e,
                                                  None, comps[k], r))
    /\ inserted' = inserted \ {<<k, e>>}
    /\ last_insert' = None
    /\ last_tick' = None
    /\ roundtrip' = None
    /\ UNCHANGED <<pc, frame_vars, entity_data>>

\* get and get_with_schedule take &self: the table is not written.
Get(k, e) ==
    /\ pc = "idle"
    /\ last_call' = Some(TableCall("get", k, e, None, comps[k],
                                   [ret |-> get(comps[k], e)]))
    /\ last_insert' = None
    /\ last_tick' = None
    /\ roundtrip' = None
    /\ UNCHANGED <<comps, pc, frame_vars, entity_data, inserted>>

GetWithSchedule(k, e) ==
    /\ pc = "idle"
    /\ last_call' = Some(ScheduledTableCall("get_with_schedule", k, e, None,
                                            comps[k],
                                            [ret |-> get_with_schedule(comps[k], e)]))
    /\ last_insert' = None
    /\ last_tick' = None
    /\ roundtrip' = None
    /\ UNCHANGED <<comps, pc, frame_vars, entity_data, inserted>>

ClearTable(k) ==
    /\ pc = "idle"
    /\ comps' = [comps EXCEPT ![k] = clear(@)]
    /\ last_call' = None
    /\ inserted' = {p \in inserted : p[1] # k}
    /\ last_insert' = None
    /\ last_tick' = None
    /\ roundtrip' = None
    /\ UNCHANGED <<pc, frame_vars, entity_data>>

(***************************************************************************)
(* A direct call of tick_entity; the bundle it returns is dropped.         *)
(***************************************************************************)
TickEntity(e, remaining) ==
    /\ pc = "idle"
    /\ \E r \in {tick_entity(comps, e, remaining)} :
       /\ comps' = r.components
       /\ last_tick' = Some(StepRecord(e, remaining, comps, r, r.calls, last_insert))
       /\ pc' = IF r.panic THEN "panicked" ELSE "idle"
    /\ last_insert' = None
    /\ roundtrip' = None
    /\ last_call' = None
    /\ UNCHANGED <<frame_vars, entity_data, inserted>>

(***************************************************************************)
(* process_entity_frame, lines 155-168: the call (line 160), the loop test *)
(* (line 161), one iteration of the body (lines 162-166) and the return.   *)
(***************************************************************************)
StartFrame(e, duration) ==
    /\ pc = "idle"
    /\ pc' = "test"
    /\ entity' = Some(e)
    /\ frame_duration' = duration
    /\ frame_remaining' = duration
    /\ context' = <<>>
    /\ history' = <<>>
    /\ nsteps' = 0
    /\ start' = comps
    /\ last_tick' = None
    /\ roundtrip' = None
    /\ last_call' = None
    /\ UNCHANGED <<comps, last_insert, entity_data, inserted>>

LoopTest ==
    /\ pc = "test"
    /\ pc' = IF frame_remaining > 0 THEN "body" ELSE "done"
    /\ UNCHANGED <<comps, frame_vars, last_insert, last_tick, entity_data, roundtrip,
                   inserted, last_call>>

LoopBody ==
    /\ pc = "body"
    /\ \E e \in {Unwrap(entity)} :
       \E r \in {tick_entity(comps, e, frame_remaining)} :
       \E a \in {apply(r.events, e, context)} :
          /\ comps' = r.components
          /\ IF r.panic
             THEN /\ pc' = "panicked"
                  /\ UNCHANGED <<context, frame_remaining, history, nsteps>>
             ELSE /\ context' = a.context
                  /\ history' =
                         IF Len(history) < MaxSteps
                         THEN Append(history,
                                  StepRecord(e, frame_remaining, comps, r,
                                             r.calls \o a.calls, last_insert))
                         ELSE history
                  /\ nsteps' = Min(nsteps + 1, MaxSteps + 1)
                  /\ IF r.until_next_tick > frame_remaining
                     THEN pc' = "panicked" /\ UNCHANGED frame_remaining
                     ELSE /\ pc' = "test"
                          /\ frame_remaining' = frame_remaining - r.until_next_tick
    /\ last_insert' = None
    /\ UNCHANGED <<entity, frame_duration, start, last_tick, entity_data, roundtrip,
                   inserted, last_call>>

Return ==
    /\ pc = "done"
    /\ pc' = "idle"
    /\ entity' = None
    /\ frame_duration' = 0
    /\ frame_remaining' = 0
    /\ context' = <<>>
    /\ history' = <<>>
    /\ nsteps' = 0
    /\ start' = DefaultComponents
    /\ last_insert' = None
    /\ UNCHANGED <<comps, last_tick, entity_data, roundtrip, inserted, last_call>>

(***************************************************************************)
(* Calls on the aggregate. A snapshot taken by clone_entity_data or        *)
(* remove_entity_data stays with the caller (entity_data, with the         *)
(* aggregate and entity it was taken from) until insert_entity_data or     *)
(* update_entity_data consumes it.                                         *)
(***************************************************************************)
DataCall(op, e, data, before) ==
    [op |-> op, entity |-> e, data |-> data, before |-> before]

\* The <<kind, entity>> pairs of entity e, and those a snapshot holds a value for.
PairsOf(e) == {<<k, e>> : k \in KindSet}

PairsIn(e, data) == {<<k, e>> : k \in {j \in KindSet : IsSome(data[j])}}

Clear ==
    /\ pc = "idle"
    /\ comps' = clear_components(comps)
    /\ inserted' = {}
    /\ last_call' = None
    /\ last_insert' = None
    /\ last_tick' = None
    /\ roundtrip' = None
    /\ UNCHANGED <<pc, frame_vars, entity_data>>

RemoveEntity(e) ==
    /\ pc = "idle"
    /\ comps' = remove_entity(comps, e)
    /\ inserted' = inserted \ PairsOf(e)
    /\ last_call' = None
    /\ last_insert' = None
    /\ last_tick' = None
    /\ roundtrip' = None
    /\ UNCHANGED <<pc, frame_vars, entity_data>>

CloneEntityData(e) ==
    /\ pc = "idle"
    /\ entity_data' = Some([data |-> clone_entity_data(comps, e),
                            source |-> comps, entity |-> e])
    /\ last_insert' = None
    /\ last_tick' = None
    /\ roundtrip' = None
    /\ last_call' = None
    /\ UNCHANGED <<comps, pc, frame_vars, inserted>>

RemoveEntityData(e) ==
    /\ pc = "idle"
    /\ \E r \in {remove_entity_data(comps, e)} :
          /\ comps' = r.components
          /\ entity_data' = Some([data |-> r.data, source |-> comps, entity |-> e])
    /\ inserted' = inserted \ PairsOf(e)
    /\ last_call' = None
    /\ last_insert' = None
    /\ last_tick' = None
    /\ roundtrip' = None
    /\ UNCHANGED <<pc, frame_vars>>

InsertEntityData(e) ==
    /\ pc = "idle"
    /\ IsSome(entity_data)
    /\ \E c \in {insert_entity_data(comps, e, Unwrap(entity_data).data)} :
          /\ comps' = c
          /\ roundtrip' =
                 IF comps = DefaultComponents
                 THEN Some([source |-> Unwrap(entity_data).source,
                            source_entity |-> Unwrap(entity_data).entity,
                            copy |-> c, entity |-> e])
                 ELSE None
    /\ inserted' = inserted \cup PairsIn(e, Unwrap(entity_data).data)
    /\ last_call' = Some(DataCall("insert_entity_data", e,
                                  Unwrap(entity_data).data, comps))
    /\ entity_data' = None
    /\ last_insert' = None
    /\ last_tick' = None
    /\ UNCHANGED <<pc, frame_vars>>

UpdateEntityData(e) ==
    /\ pc = "idle"
    /\ IsSome(entity_data)
    /\ comps' = update_entity_data(comps, e, Unwrap(entity_data).data)
    /\ inserted' = (inserted \ PairsOf(e)) \cup PairsIn(e, Unwrap(entity_data).data)
    /\ last_call' = Some(DataCall("update_entity_data", e,
                                  Unwrap(entity_data).data, comps))
    /\ entity_data' = None
    /\ last_insert' = None
    /\ last_tick' = None
    /\ roundtrip' = None
    /\ UNCHANGED <<pc, frame_vars>>

Next ==
    \/ \E k \in KindSet, e \in Entities : \E v \in ComponentsOf[k] : Insert(k, e, v)
    \/ \E k \in KindSet, e \in Entities : \E v \in ComponentsOf[k], d \in Delays :
           InsertWithSchedule(k, e, v, d)
    \/ \E k \in KindSet, e \in Entities : Remove(k, e)
    \/ \E e \in Entities, remaining \in FrameDurations : TickEntity(e, remaining)
    \/ \E e \in Entities, duration \in FrameDurations : StartFrame(e, duration)
    \/ LoopTest
    \/ LoopBody
    \/ Return

Spec == Init /\ [][Next]_vars

\* A call of process_entity_frame that has begun keeps executing: the code is
\* sequential and nothing suspends it.
LiveSpec == Spec /\ WF_vars(LoopTest) /\ WF_vars(LoopBody)

\* The snapshot operations next to the table operations and tick_entity; a
\* caller holding a snapshot puts it back (possibly after clearing the
\* aggregate) before it does anything else.
SnapshotNext ==
    \/ \E k \in KindSet, e \in Entities : \E v \in ComponentsOf[k] :
           entity_data = None /\ Insert(k, e, v)
    \/ \E k \in KindSet, e \in Entities : \E v \in ComponentsOf[k], d \in Delays :
           entity_data = None /\ InsertWithSchedule(k, e, v, d)
    \/ \E k \in KindSet, e \in Entities : entity_data = None /\ Remove(k, e)
    \/ \E e \in Entities : entity_data = None /\ RemoveEntity(e)
    \/ \E e \in Entities, remaining \in FrameDurations :
           entity_data = None /\ TickEntity(e, remaining)
    \/ \E e \in Entities : entity_data = None /\ CloneEntityData(e)
    \/ \E e \in Entities : entity_data = None /\ RemoveEntityData(e)
    \/ Clear
    \/ \E e \in Entities : InsertEntityData(e)
    \/ \E e \in Entities : UpdateEntityData(e)

SnapshotSpec == Init /\ [][SnapshotNext]_vars

\* The worked example: kind a's tick always returns 100 (ms), kind b's always
\* 50; both are inserted with insert, and frames of several durations run.
ExampleComponent == [a |-> <<100>>, b |-> <<50>>]
ExampleKinds == DOMAIN ExampleComponent
ExampleDurations == {0, 20, 50, 120}

ExampleNext ==
    \/ \E k \in ExampleKinds, e \in Entities : Insert(k, e, ExampleComponent[k])
    \/ \E k \in ExampleKinds, e \in Entities : Remove(k, e)
    \/ \E e \in Entities, duration \in ExampleDurations : StartFrame(e, duration)
    \/ LoopTest
    \/ LoopBody
    \/ Return

ExampleSpec == Init /\ [][ExampleNext]_vars

\* One kind's table under every call of its interface, with several entities.
TableEntities == {"e1", "e2", "e3"}
TableKind == Kinds[1]

TableNext ==
    \/ \E e \in TableEntities : \E v \in ComponentsOf[TableKind] :
           Insert(TableKind, e, v)
    \/ \E e \in TableEntities : \E v \in ComponentsOf[TableKind], d \in Delays :
           InsertWithSchedule(TableKind, e, v, d)
    \/ \E e \in TableEntities : Remove(TableKind, e)
    \/ \E e \in TableEntities : RemoveWithSchedule(TableKind, e)
    \/ \E e \in TableEntities : Get(TableKind, e)
    \/ \E e \in TableEntities : GetWithSchedule(TableKind, e)
    \/ ClearTable(TableKind)

TableSpec == Init /\ [][TableNext]_vars

\* Two entities whose components are inserted, and snapshots of one entity put
\* onto either of them with insert_entity_data or update_entity_data.
TwoEntities == {"e1", "e2"}

EntityDataNext ==
    \/ \E k \in KindSet, e \in TwoEntities : \E v \in ComponentsOf[k] :
           entity_data = None /\ Insert(k, e, v)
    \/ \E e \in TwoEntities : entity_data = None /\ CloneEntityData(e)
    \/ \E e \in TwoEntities : entity_data = None /\ RemoveEntityData(e)
    \/ \E e \in TwoEntities : InsertEntityData(e)
    \/ \E e \in TwoEntities : UpdateEntityData(e)

EntityDataSpec == Init /\ [][EntityDataNext]_vars

\* Two entities in the same aggregate: e1 with records of the first and the
\* last kind, e2 with a record in the last kind's table next to e1's.
\* Scheduling steps and frames of either run while the other has components.
PairRecords == ({Kinds[1], Kinds[3]} \X {"e1"}) \cup ({Kinds[3]} \X {"e2"})

PairNext ==
    \/ \E p \in PairRecords : \E v \in ComponentsOf[p[1]], d \in Delays :
           InsertWithSchedule(p[1], p[2], v, d)
    \/ \E e \in TwoEntities, remaining \in FrameDurations : TickEntity(e, remaining)
    \/ \E e \in TwoEntities, duration \in FrameDurations : StartFrame(e, duration)
    \/ LoopTest
    \/ LoopBody
    \/ Return

PairSpec == Init /\ [][PairNext]_vars

(***************************************************************************)
(* Helpers of the properties                                               *)
(***************************************************************************)
Range(seq) == {seq[i] : i \in 1..Len(seq)}

\* Every tick_entity call on record: the steps of the current frame call and
\* the last direct call.
AllSteps == Range(history) \cup Range(last_tick)

SetMin(S) == CHOOSE x \in S : \A y \in S : x <= y

Fired(s) == {k \in KindSet : IsSome(s.events[k])}

TickCalls(s, k) == {i \in 1..Len(s.calls) : s.calls[i].call = "tick" /\ s.calls[i].kind = k}

(***************************************************************************)
(* C1: process_entity_frame always terminates: every frame call that has   *)
(* begun reaches frame_remaining = 0 and returns, whatever the components' *)
(* ticks return, a next delay of zero included.                            *)
(***************************************************************************)
C1_FrameTerminates == (pc = "test") ~> (pc = "done")

(***************************************************************************)
(* C5: tick_entity returns elapsed = the minimum of frame_remaining and    *)
(* the stored until_next_tick of every kind present for the entity (so     *)
(* elapsed = frame_remaining when no kind is present).                     *)
(***************************************************************************)
PresentDelays(c, e) == {DelayOf(c, k, e) : k \in PresentKinds(c, e)}

C5_ElapsedIsMinimum ==
    \A s \in AllSteps :
        s.elapsed = SetMin({s.frame_remaining} \cup PresentDelays(s.before, s.entity))

\* A frame with a step bounded by a stored delay below frame_remaining, kinds
\* of different delays being present, and a step bounded by frame_remaining.
C5_Witness ==
    /\ pc = "done"
    /\ \E s \in Range(history) :
          /\ 0 < s.elapsed /\ s.elapsed < s.frame_remaining
          /\ Cardinality(PresentDelays(s.before, s.entity)) >= 2
    /\ \E s \in Range(history) :
          /\ s.elapsed = s.frame_remaining
          /\ \E d \in PresentDelays(s.before, s.entity) : d > s.elapsed

(***************************************************************************)
(* C6 as claimed: if two kinds of the same entity have equal stored delay  *)
(* d <= frame_remaining, one tick_entity step fires both, whatever the     *)
(* stored delays of the entity's other kinds.                              *)
(***************************************************************************)
TiedPairs(s) ==
    {p \in KindSet \X KindSet :
        /\ p[1] # p[2]
        /\ {p[1], p[2]} \subseteq PresentKinds(s.before, s.entity)
        /\ DelayOf(s.before, p[1], s.entity) = DelayOf(s.before, p[2], s.entity)
        /\ DelayOf(s.before, p[1], s.entity) <= s.frame_remaining}

C6_TiedKindsAlwaysFire ==
    \A s \in AllSteps : \A p \in TiedPairs(s) :
        IsSome(s.events[p[1]]) /\ IsSome(s.events[p[2]])

(***************************************************************************)
(* C6 amended: if two kinds of the same entity have equal stored delay     *)
(* d <= frame_remaining and no other present kind of the entity has a      *)
(* stored delay below d, one tick_entity step fires both and both bundle   *)
(* slots hold an event.                                                    *)
(***************************************************************************)
C6_TiedEarliestKindsFire ==
    \A s \in AllSteps : \A p \in TiedPairs(s) :
        (\A d \in PresentDelays(s.before, s.entity) :
             d >= DelayOf(s.before, p[1], s.entity))
        => /\ IsSome(s.events[p[1]]) /\ IsSome(s.events[p[2]])
           /\ Cardinality(TickCalls(s, p[1])) = 1
           /\ Cardinality(TickCalls(s, p[2])) = 1

\* Two kinds tied at a positive delay fire together while the third kind,
\* present with a larger delay, does not.
C6_Witness ==
    \E s \in AllSteps : \E p \in TiedPairs(s) :
        /\ DelayOf(s.before, p[1], s.entity) > 0
        /\ PresentKinds(s.before, s.entity) = KindSet
        /\ Fired(s) = {p[1], p[2]}

(***************************************************************************)
(* C7: after insert(e, v) on a kind's table, the next tick_entity(e,       *)
(* frame_remaining) with frame_remaining > 0 fires that kind exactly once  *)
(* and returns elapsed = 0, whatever the other kinds' stored delays and    *)
(* whether or not insert overwrote a record with a non-zero delay.         *)
(***************************************************************************)
AfterInsert(s) ==
    /\ IsSome(s.after_insert)
    /\ Unwrap(s.after_insert).entity = s.entity
    /\ s.frame_remaining > 0

C7_InsertedKindFiresNext ==
    \A s \in AllSteps :
        AfterInsert(s)
        => /\ s.elapsed = 0
           /\ IsSome(s.events[Unwrap(s.after_insert).kind])
           /\ Cardinality(TickCalls(s, Unwrap(s.after_insert).kind)) = 1

\* The insert overwrote a record whose delay was not zero, and another kind
\* is present with a non-zero delay.
C7_Witness ==
    \E s \in AllSteps :
        /\ AfterInsert(s)
        /\ IsSome(Unwrap(s.after_insert).prior_delay)
        /\ Unwrap(Unwrap(s.after_insert).prior_delay) > 0
        /\ \E k \in PresentKinds(s.before, s.entity) :
               DelayOf(s.before, k, s.entity) > 0
        /\ IsSome(s.events[Unwrap(s.after_insert).kind])

(***************************************************************************)
(* C8: whenever process_entity_frame returns, the elapsed durations its    *)
(* scheduling steps returned sum to exactly frame_duration, and at every   *)
(* step elapsed <= frame_remaining, so frame_remaining -= elapsed never    *)
(* underflows.                                                             *)
(***************************************************************************)
RECURSIVE SumElapsed(_)
SumElapsed(h) == IF h = <<>> THEN 0 ELSE Head(h).elapsed + SumElapsed(Tail(h))

HistoryComplete == nsteps <= MaxSteps

C8_ElapsedSumsToFrame ==
    /\ pc # "panicked"
    /\ \A s \in Range(history) : s.elapsed <= s.frame_remaining
    /\ (pc = "done" /\ HistoryComplete) => SumElapsed(history) = frame_duration

\* A returned frame of several steps, one of them of elapsed 0, the last one
\* shorter than the frame.
C8_Witness ==
    /\ pc = "done"
    /\ Len(history) >= 3
    /\ \E s \in Range(history) : s.elapsed = 0
    /\ 0 < history[Len(history)].elapsed
    /\ history[Len(history)].elapsed < frame_duration

(***************************************************************************)
(* C9: applying an event bundle dispatches the events of the kinds that    *)
(* fired one at a time in the kinds' declaration order, whichever subset   *)
(* fired; kinds whose slot is empty receive no apply_event call.           *)
(***************************************************************************)
ApplyCalls(s) == SelectSeq(s.calls, LAMBDA x : x.call = "apply_event")

FiredInOrder(s) == SelectSeq(Kinds, LAMBDA k : IsSome(s.events[k]))

C9_ApplyInDeclarationOrder ==
    \A s \in Range(history) :
        /\ Len(ApplyCalls(s)) = Len(FiredInOrder(s))
        /\ \A i \in 1..Len(ApplyCalls(s)) :
              /\ ApplyCalls(s)[i].kind = FiredInOrder(s)[i]
              /\ ApplyCalls(s)[i].event = Unwrap(s.events[FiredInOrder(s)[i]])

\* The first and the last kind fired while the middle one, present, did not.
C9_Witness ==
    \E s \in Range(history) :
        /\ PresentKinds(s.before, s.entity) = KindSet
        /\ Fired(s) = {Kinds[1], Kinds[Len(Kinds)]}
        /\ Len(ApplyCalls(s)) = 2
        /\ s.elapsed > 0

(***************************************************************************)
(* The fires of the current frame call: the simulated instant each step    *)
(* reached, counted from the start of the call, and its bundle.            *)
(***************************************************************************)
StepInstant(s) == frame_duration - s.frame_remaining + s.elapsed

FiringSteps == SelectSeq(history, LAMBDA s : s.events # NoEvents)

FiredEvents ==
    [i \in 1..Len(FiringSteps) |->
        [at |-> StepInstant(FiringSteps[i]), events |-> FiringSteps[i].events]]

(***************************************************************************)
(* C2: split-invariance: a process_entity_frame call of duration D ends    *)
(* with the same until_next_tick and component value for every kind, and   *)
(* fires the same bundles at the same instants in the same order, as any   *)
(* sequence of calls whose durations sum to D made from the same aggregate *)
(* (ticks being deterministic and nothing else changing the state).        *)
(***************************************************************************)
Splits(total) ==
    {d \in (0..total) \X (0..total) \X (0..total) : d[1] + d[2] + d[3] = total}

SplitRun(c, e, d) ==
    LET first == process_entity_frame(c, e, d[1], 0)
        second == process_entity_frame(first.components, e, d[2], d[1])
        third == process_entity_frame(second.components, e, d[3], d[1] + d[2])
    IN [components |-> third.components,
        fired |-> first.fired \o second.fired \o third.fired,
        returned |-> first.returned /\ second.returned /\ third.returned]

C2_SplitInvariance ==
    (pc = "done" /\ HistoryComplete)
    => \A d \in Splits(frame_duration) :
           LET split == SplitRun(start, Unwrap(entity), d) IN
           /\ split.returned
           /\ split.components = comps
           /\ split.fired = FiredEvents

\* A frame that fired at several instants, one of them strictly inside the
\* frame, with a kind whose tick depends on its state and a kind that was
\* not due at the end: its splits cut between, at and after the fires.
C2_Witness ==
    /\ pc = "done" /\ HistoryComplete
    /\ frame_duration >= 3
    /\ Len(FiredEvents) >= 3
    /\ \E k \in PresentKinds(start, Unwrap(entity)) :
           Len(start[k][Unwrap(entity)].component) = 2
    /\ \E k \in PresentKinds(comps, Unwrap(entity)) :
           DelayOf(comps, k, Unwrap(entity)) > 0
    /\ \E d \in Splits(frame_duration) :
           /\ d[1] > 0 /\ d[2] > 0 /\ d[3] > 0
           /\ SplitRun(start, Unwrap(entity), d).fired = FiredEvents

(***************************************************************************)
(* C4: the kinds of the frame's entity whose tick always returns the same  *)
(* positive delay, when every kind present returns positive delays only.   *)
(***************************************************************************)
ReturnsPositiveDelays(component) ==
    \A i \in 1..Len(component) : component[i] > 0

Periodic(k) ==
    LET e == Unwrap(entity) IN
    /\ k \in PresentKinds(start, e)
    /\ Len(start[k][e].component) = 1
    /\ \A j \in PresentKinds(start, e) : ReturnsPositiveDelays(start[j][e].component)

FiresAt(k, t) ==
    {i \in 1..Len(history) : StepInstant(history[i]) = t /\ k \in Fired(history[i])}

\* The kind fired exactly once at every instant d + n*p <= D, at no other
\* instant, and a kind with d > D ends with stored delay d - D.
FiresOnSchedule(k) ==
    LET e == Unwrap(entity)
        d == DelayOf(start, k, e)
        p == start[k][e].component[1]
    IN /\ \A t \in 0..frame_duration :
              Cardinality(FiresAt(k, t)) =
                  IF t >= d /\ (t - d) % p = 0 THEN 1 ELSE 0
       /\ d > frame_duration
          => /\ k \in PresentKinds(comps, e)
             /\ DelayOf(comps, k, e) = d - frame_duration

(***************************************************************************)
(* C4 as claimed: for a kind whose stored delay is d at the start and      *)
(* whose tick always returns the same positive delay p, a                  *)
(* process_entity_frame call of duration D (any other kinds present        *)
(* returning positive delays) fires the kind exactly once at every instant *)
(* d + n*p <= D and at no other instant; a kind with d > D is not fired    *)
(* and ends with stored delay d - D.                                       *)
(***************************************************************************)
C4_FiresOnScheduleAnyFrame ==
    (pc = "done" /\ HistoryComplete)
    => \A k \in KindSet : Periodic(k) => FiresOnSchedule(k)

(***************************************************************************)
(* C4 amended: the same for a call of duration D > 0 (a call of duration 0 *)
(* performs no step, so a kind with d = 0 is not fired at instant 0).      *)
(***************************************************************************)
C4_FiresOnSchedule ==
    (pc = "done" /\ HistoryComplete /\ frame_duration > 0)
    => \A k \in KindSet : Periodic(k) => FiresOnSchedule(k)

\* In a frame of duration 1, a kind of period 1 due at once fired at 0 and at
\* 1, a kind of period 2 due at 1 fired there only, and a third kind, due
\* after the frame, was only counted down.
C4_Witness ==
    /\ pc = "done" /\ HistoryComplete
    /\ frame_duration = 1
    /\ \E k \in KindSet :
          /\ Periodic(k)
          /\ start[k][Unwrap(entity)].component = <<1>>
          /\ DelayOf(start, k, Unwrap(entity)) = 0
          /\ Cardinality(FiresAt(k, 0)) = 1
          /\ Cardinality(FiresAt(k, 1)) = 1
    /\ \E k \in KindSet :
          /\ Periodic(k)
          /\ start[k][Unwrap(entity)].component = <<2>>
          /\ DelayOf(start, k, Unwrap(entity)) = 1
          /\ FiresAt(k, 0) = {}
          /\ Cardinality(FiresAt(k, 1)) = 1
    /\ \E k \in KindSet :
          /\ Periodic(k)
          /\ DelayOf(start, k, Unwrap(entity)) > frame_duration
          /\ \A t \in 0..frame_duration : FiresAt(k, t) = {}
          /\ DelayOf(comps, k, Unwrap(entity)) > 0

(***************************************************************************)
(* The scheduling behaviour of an entity: which kinds fire at which        *)
(* simulated instants under process_entity_frame, for every duration.      *)
(***************************************************************************)
FiredKinds(run) ==
    [i \in 1..Len(run.fired) |->
        [at |-> run.fired[i].at,
         kinds |-> {k \in KindSet : IsSome(run.fired[i].events[k])}]]

SameSchedulingBehaviour(c1, e1, c2, e2) ==
    \A duration \in FrameDurations :
        LET run1 == process_entity_frame(c1, e1, duration, 0)
            run2 == process_entity_frame(c2, e2, duration, 0)
        IN /\ run1.returned = run2.returned
           /\ FiredKinds(run1) = FiredKinds(run2)

(***************************************************************************)
(* C3 as claimed: an entity's snapshot (clone_entity_data or               *)
(* remove_entity_data) reinserted with insert_entity_data into an empty    *)
(* aggregate yields an entity whose subsequent scheduling behaviour is     *)
(* identical to the original entity's, for every stored until_next_tick    *)
(* the original kinds may hold.                                            *)
(***************************************************************************)
C3_RoundTripKeepsBehaviour ==
    IsSome(roundtrip)
    => LET rt == Unwrap(roundtrip) IN
       SameSchedulingBehaviour(rt.source, rt.source_entity, rt.copy, rt.entity)

(***************************************************************************)
(* C3 amended: the reinserted entity has the original's kinds and          *)
(* component values with every until_next_tick reset to 0, so its          *)
(* subsequent scheduling behaviour is identical to the original entity's   *)
(* when every stored until_next_tick of the original was 0 at the          *)
(* snapshot.                                                               *)
(***************************************************************************)
C3_RoundTripResetsDelays ==
    IsSome(roundtrip)
    => LET rt == Unwrap(roundtrip) IN
       /\ PresentKinds(rt.copy, rt.entity) = PresentKinds(rt.source, rt.source_entity)
       /\ \A k \in PresentKinds(rt.copy, rt.entity) :
             /\ rt.copy[k][rt.entity].component =
                    rt.source[k][rt.source_entity].component
             /\ DelayOf(rt.copy, k, rt.entity) = 0
       /\ (\A k \in PresentKinds(rt.source, rt.source_entity) :
               DelayOf(rt.source, k, rt.source_entity) = 0)
          => SameSchedulingBehaviour(rt.source, rt.source_entity,
                                     rt.copy, rt.entity)

\* A snapshot of an entity with all three kinds, all due at once, one of them
\* a component that had been ticked, was reinserted into the cleared
\* aggregate, and the entity fires in a later frame.
C3_Witness ==
    /\ IsSome(roundtrip)
    /\ LET rt == Unwrap(roundtrip) IN
       /\ PresentKinds(rt.source, rt.source_entity) = KindSet
       /\ \A k \in KindSet : DelayOf(rt.source, k, rt.source_entity) = 0
       /\ \E k \in KindSet : rt.source[k][rt.source_entity].component = <<1, 0>>
       /\ Len(process_entity_frame(rt.copy, rt.entity, 1, 0).fired) >= 2

(***************************************************************************)
(* C10: the worked example. With kind a always returning 100 and kind b    *)
(* always returning 50, both starting at delay 0, process_entity_frame     *)
(* with frame_duration = 120 performs exactly three firing steps and one   *)
(* final non-firing step: elapsed 0 firing a and b (a = 100, b = 50),      *)
(* elapsed 50 firing b only (a = 50, b = 50), elapsed 50 firing a and b    *)
(* (a = 100, b = 50), then elapsed 20 firing nothing; total elapsed 120.   *)
(***************************************************************************)
ExampleStart(e) ==
    [k \in KindSet |->
        IF k \in ExampleKinds
        THEN insert(EmptyTable, e, ExampleComponent[k]).table
        ELSE EmptyTable]

ExampleFrame ==
    /\ pc = "done"
    /\ frame_duration = 120
    /\ start = ExampleStart(Unwrap(entity))

StepIs(s, elapsed, fired, delay_a, delay_b) ==
    /\ s.elapsed = elapsed
    /\ Fired(s) = fired
    /\ DelayOf(s.after, "a", s.entity) = delay_a
    /\ DelayOf(s.after, "b", s.entity) = delay_b

C10_WorkedExample ==
    ExampleFrame
    => /\ nsteps = 4
       /\ Len(history) = 4
       /\ StepIs(history[1], 0, {"a", "b"}, 100, 50)
       /\ StepIs(history[2], 50, {"b"}, 50, 50)
       /\ StepIs(history[3], 50, {"a", "b"}, 100, 50)
       /\ StepIs(history[4], 20, {}, 80, 30)
       /\ SumElapsed(history) = 120

C10_Witness == ExampleFrame /\ Len(history) = 4 /\ Fired(history[4]) = {}

(***************************************************************************)
(* C11: the number of scheduling steps one process_entity_frame call       *)
(* performs is at most the number of distinct simulated instants within    *)
(* the frame at which some kind fires, plus one trailing non-firing step,  *)
(* whatever the ticks return (a next delay of zero included).              *)
(***************************************************************************)
FireInstants == {StepInstant(s) : s \in Range(FiringSteps)}

C11_StepsBoundedByFireInstants ==
    (pc = "done" /\ HistoryComplete)
    => nsteps <= Cardinality(FireInstants) + 1

(***************************************************************************)
(* C12: within one process_entity_frame call the cumulative simulated time *)
(* each scheduling step reaches is greater than the time reached by the    *)
(* step before it.                                                         *)
(***************************************************************************)
C12_StepsStrictlyIncreasing ==
    \A i \in 2..Len(history) :
        StepInstant(history[i]) > StepInstant(history[i - 1])

(***************************************************************************)
(* C13: after any sequence of insert, insert_with_schedule, remove,        *)
(* remove_with_schedule and clear on one component table, contains(e) is   *)
(* true exactly when the most recent of those operations affecting e was   *)
(* an insertion, and len() is the number of such entities.                 *)
(***************************************************************************)
InsertedInto(k) == {p[2] : p \in {q \in inserted : q[1] = k}}

C13_ContainsMostRecentWins ==
    \A k \in KindSet :
        /\ \A e \in TableEntities : contains(comps[k], e) <=> e \in InsertedInto(k)
        /\ len(comps[k]) = Cardinality(InsertedInto(k))
        /\ is_empty(comps[k]) <=> InsertedInto(k) = {}

\* A record was removed from a table that held all three entities, leaving
\* the two others.
C13_Witness ==
    /\ IsSome(last_call)
    /\ Unwrap(last_call).op = "remove"
    /\ len(Unwrap(last_call).before) = 3
    /\ len(comps[TableKind]) = 2
    /\ ~contains(comps[TableKind], Unwrap(last_call).entity)

(***************************************************************************)
(* C14: table operations never fail: get, get_with_schedule, remove and    *)
(* remove_with_schedule on an absent entity return None and leave the      *)
(* table unchanged; insert and insert_with_schedule over an existing       *)
(* record replace it and return the prior component (the prior record for  *)
(* insert_with_schedule).                                                  *)
(***************************************************************************)
Lookups == {"get", "get_with_schedule", "remove", "remove_with_schedule"}

C14_TableOperationsTotal ==
    /\ pc # "panicked"
    /\ IsSome(last_call) /\ Unwrap(last_call).op \in Lookups \cup {"insert", "insert_with_schedule"}
       => LET c == Unwrap(last_call)
              after == comps[c.kind]
              absent == ~contains(c.before, c.entity)
          IN /\ (c.op \in Lookups /\ absent)
                => c.ret = None /\ c.scheduled_ret = None /\ after = c.before
             /\ (c.op = "insert" /\ ~absent)
                => /\ c.ret = Some(c.before[c.entity].component)
                   /\ after = [c.before EXCEPT ![c.entity] =
                                  ScheduledRealtimeComponent(Unwrap(c.data), 0)]
             /\ (c.op = "insert_with_schedule" /\ ~absent)
                => /\ c.scheduled_ret = Some(c.before[c.entity])
                   /\ after = [c.before EXCEPT ![c.entity] =
                                  Unwrap(c.scheduled_data)]

\* insert_with_schedule replaced a record of another value and delay in a
\* table that holds a second entity.
C14_Witness ==
    /\ IsSome(last_call)
    /\ LET c == Unwrap(last_call) IN
       /\ c.op = "insert_with_schedule"
       /\ contains(c.before, c.entity)
       /\ c.before[c.entity].component # Unwrap(c.scheduled_data).component
       /\ c.before[c.entity].until_next_tick #
              Unwrap(c.scheduled_data).until_next_tick
       /\ len(c.before) = 2
       /\ c.scheduled_ret = Some(c.before[c.entity])

(***************************************************************************)
(* C15: after update_entity_data(e, data) the entity has a component of a  *)
(* kind exactly when data holds a value for that kind, and the component   *)
(* equals that value (kinds absent from data are removed);                 *)
(* insert_entity_data(e, data) stores the values data holds and leaves the *)
(* kinds absent from data untouched.                                       *)
(***************************************************************************)
C15_UpdateMatchesData ==
    IsSome(last_call)
    => LET c == Unwrap(last_call) IN
       /\ c.op = "update_entity_data"
          => \A k \in KindSet :
                /\ contains(comps[k], c.entity) <=> IsSome(c.data[k])
                /\ get(comps[k], c.entity) = c.data[k]
       /\ c.op = "insert_entity_data"
          => \A k \in KindSet :
                IF IsSome(c.data[k])
                THEN get(comps[k], c.entity) = c.data[k]
                ELSE comps[k] = c.before[k]

\* update_entity_data removed a kind the entity had and data lacks, replaced
\* a component by a different value, and added a kind the entity lacked.
C15_Witness ==
    /\ IsSome(last_call)
    /\ LET c == Unwrap(last_call) IN
       /\ c.op = "update_entity_data"
       /\ \E k \in KindSet :
             contains(c.before[k], c.entity) /\ ~IsSome(c.data[k])
       /\ \E k \in KindSet :
             /\ contains(c.before[k], c.entity) /\ IsSome(c.data[k])
             /\ get(c.before[k], c.entity) # c.data[k]
       /\ \E k \in KindSet :
             ~contains(c.before[k], c.entity) /\ IsSome(c.data[k])

(***************************************************************************)
(* C16: in one tick_entity step a present kind fires if and only if its    *)
(* stored until_next_tick equals the returned elapsed. A fired kind has    *)
(* its tick invoked exactly once, its until_next_tick replaced by the      *)
(* delay tick returned and an event in its bundle slot; a present kind     *)
(* that does not fire has no tick invoked and an empty slot; an absent     *)
(* kind has an empty slot and stays absent.                                *)
(***************************************************************************)
C16_FiresIffDelayIsElapsed ==
    \A s \in AllSteps : \A k \in KindSet :
        IF contains(s.before[k], s.entity)
        THEN LET old == s.before[k][s.entity]
                 t == Tick(old.component)
             IN /\ IsSome(s.events[k]) <=> old.until_next_tick = s.elapsed
                /\ contains(s.after[k], s.entity)
                /\ IF IsSome(s.events[k])
                   THEN /\ Cardinality(TickCalls(s, k)) = 1
                        /\ s.events[k] = Some(t.event)
                        /\ s.after[k][s.entity] =
                               ScheduledRealtimeComponent(t.component,
                                                          t.until_next_tick)
                   ELSE /\ TickCalls(s, k) = {}
                        /\ s.after[k][s.entity].component = old.component
        ELSE /\ s.events[k] = None
             /\ TickCalls(s, k) = {}
             /\ ~contains(s.after[k], s.entity)

\* One step with a kind that fired and stored a new delay different from its
\* old one, a present kind that did not fire, and an absent kind.
C16_Witness ==
    \E s \in AllSteps : \E fired, idle, absent \in KindSet :
        /\ IsSome(s.events[fired])
        /\ DelayOf(s.after, fired, s.entity) # DelayOf(s.before, fired, s.entity)
        /\ contains(s.before[idle], s.entity) /\ ~IsSome(s.events[idle])
        /\ ~contains(s.before[absent], s.entity)

(***************************************************************************)
(* C17: every stored until_next_tick is non-negative in every reachable    *)
(* state, and in tick_entity the subtraction of elapsed from a non-fired   *)
(* kind's until_next_tick never underflows: the kind's new delay is its    *)
(* old delay minus elapsed, which is strictly positive.                    *)
(***************************************************************************)
C17_DelaysNeverUnderflow ==
    /\ pc # "panicked"
    /\ \A k \in KindSet : \A e \in DOMAIN comps[k] : DelayOf(comps, k, e) >= 0
    /\ \A s \in AllSteps : \A k \in PresentKinds(s.before, s.entity) :
           ~IsSome(s.events[k])
           => /\ s.elapsed <= DelayOf(s.before, k, s.entity)
              /\ DelayOf(s.after, k, s.entity) =
                     DelayOf(s.before, k, s.entity) - s.elapsed
              /\ DelayOf(s.after, k, s.entity) > 0

\* A step of positive elapsed below frame_remaining fired one kind and
\* counted another down to a positive delay.
C17_Witness ==
    \E s \in AllSteps : \E k \in PresentKinds(s.before, s.entity) :
        /\ 0 < s.elapsed /\ s.elapsed < s.frame_remaining
        /\ Fired(s) # {}
        /\ ~IsSome(s.events[k])
        /\ DelayOf(s.after, k, s.entity) = DelayOf(s.before, k, s.entity) - s.elapsed
        /\ DelayOf(s.after, k, s.entity) > 0

(***************************************************************************)
(* C18: for an entity with no present component of any kind, tick_entity   *)
(* returns an empty bundle and elapsed = frame_remaining, so               *)
(* process_entity_frame with frame_duration > 0 performs exactly one step, *)
(* which fires and applies nothing, and then terminates, leaving the       *)
(* aggregate unchanged.                                                    *)
(***************************************************************************)
EmptyEntityFrame ==
    /\ pc \in {"test", "body", "done"}
    /\ PresentKinds(start, Unwrap(entity)) = {}
    /\ frame_duration > 0

C18_EmptyEntityOneStep ==
    /\ \A s \in AllSteps :
           PresentKinds(s.before, s.entity) = {}
           => /\ s.events = NoEvents
              /\ s.elapsed = s.frame_remaining
              /\ s.calls = <<>>
              /\ s.after = s.before
    /\ EmptyEntityFrame
       => /\ comps = start
          /\ context = <<>>
          /\ nsteps <= 1
          /\ pc = "body" => nsteps = 0
          /\ (pc = "test" /\ nsteps = 0) => frame_remaining = frame_duration
          /\ (pc = "test" /\ nsteps = 1) => frame_remaining = 0
          /\ pc = "done"
             => /\ nsteps = 1
                /\ Len(history) = 1
                /\ history[1].elapsed = frame_duration

\* A frame of more than one time unit returned for an entity without
\* components while the other entity holds records that are due within it.
C18_Witness ==
    /\ EmptyEntityFrame
    /\ pc = "done"
    /\ frame_duration > 1
    /\ \E x \in TwoEntities \ {Unwrap(entity)} :
          /\ PresentKinds(comps, x) # {}
          /\ \A k \in PresentKinds(comps, x) : DelayOf(comps, k, x) < frame_duration

(***************************************************************************)
(* C20: tick_entity(e, ...) changes only the records of entity e: for      *)
(* every other entity the presence, component value and until_next_tick of *)
(* every kind are unchanged, and the set of kinds present for e itself is  *)
(* unchanged (tick_entity never inserts or removes a record).              *)
(***************************************************************************)
OtherRecords(table, e) == [x \in (DOMAIN table) \ {e} |-> table[x]]

C20_TickTouchesOnlyItsEntity ==
    \A s \in AllSteps :
        /\ \A k \in KindSet :
               OtherRecords(s.after[k], s.entity) = OtherRecords(s.before[k], s.entity)
        /\ PresentKinds(s.after, s.entity) = PresentKinds(s.before, s.entity)

\* A step of positive elapsed fired one kind of e1 and counted the other
\* down, while e2 holds, in the table of the kind that fired, a record that
\* was due no later than that step's instant.
C20_Witness ==
    \E s \in AllSteps : \E x \in TwoEntities \ {s.entity} :
        /\ s.elapsed > 0
        /\ Cardinality(PresentKinds(s.before, s.entity)) = 2
        /\ Cardinality(Fired(s)) = 1
        /\ \E k \in Fired(s) :
              /\ contains(s.before[k], x)
              /\ 0 < DelayOf(s.before, k, x)
              /\ DelayOf(s.before, k, x) <= s.elapsed

(***************************************************************************)
(* C19: within process_entity_frame every event a scheduling step produced *)
(* is applied to the context exactly once, and all events of a step are    *)
(* applied before the next step's ticks are invoked (tick step k, apply    *)
(* step k, tick step k+1, ...); no event is dropped or applied twice.      *)
(***************************************************************************)
StepEvents(s) ==
    [i \in 1..Len(FiredInOrder(s)) |->
        [kind |-> FiredInOrder(s)[i], entity |-> s.entity,
         event |-> Unwrap(s.events[FiredInOrder(s)[i]])]]

RECURSIVE ProducedEvents(_)
ProducedEvents(h) ==
    IF h = <<>> THEN <<>> ELSE StepEvents(Head(h)) \o ProducedEvents(Tail(h))

ApplyCallsOf(s, k) ==
    {i \in 1..Len(s.calls) : s.calls[i].call = "apply_event" /\ s.calls[i].kind = k}

C19_EventsAppliedOncePerStep ==
    /\ \A s \in Range(history) :
          LET fired == Cardinality(Fired(s)) IN
          /\ Len(s.calls) = 2 * fired
          /\ \A i \in 1..Len(s.calls) :
                s.calls[i].call = IF i <= fired THEN "tick" ELSE "apply_event"
          /\ \A k \in KindSet :
                /\ Cardinality(ApplyCallsOf(s, k)) = IF k \in Fired(s) THEN 1 ELSE 0
                /\ \A i \in ApplyCallsOf(s, k) : s.calls[i].event = Unwrap(s.events[k])
    /\ (HistoryComplete /\ Len(ProducedEvents(history)) <= MaxContext)
       => context = ProducedEvents(history)

\* A returned frame of at least three steps, one of which fired several
\* kinds and one of which fired none, whose events all reached the context.
C19_Witness ==
    /\ pc = "done" /\ HistoryComplete
    /\ Len(history) >= 3
    /\ \E s \in Range(history) : Cardinality(Fired(s)) >= 2
    /\ \E s \in Range(history) : Fired(s) = {}
    /\ Len(context) >= 4
    /\ context = ProducedEvents(history)

====
